---- MODULE Spec2Model ----
(***************************************************************************)
(* A model of pygazeanalyser/smireader.py: read_smioutput, the trial       *)
(* segmenting parser of SMI event files, with its helpers normalize,       *)
(* process_fixation, process_saccade, process_blink and append_line.       *)
(*                                                                         *)
(* Representation                                                          *)
(*  - A row of the file is the list line = raw[i].split('\t').  It is a    *)
(*    sequence; Python's line[k] is Fld(line, k) = line[k+1].  Field 0 is  *)
(*    the tag (a string), every other field is a token.                    *)
(*  - A token is a record [kind, val]: kind "int" is the decimal numeral   *)
(*    of val, kind "dec" the numeral of val/100 with a decimal point, kind *)
(*    "txt" any text that neither int() nor float() accepts.               *)
(*  - A Python float is the exact rational <<numerator, denominator>> in   *)
(*    lowest terms (floating point rounding is not modelled).              *)
(*  - None is <<>>, and a value that may be None is <<v>> when it is not   *)
(*    (start, stop, ag_mode, trial_id, starttime).  A dict entry that is   *)
(*    None is <<>> too: a stored line is never empty.                      *)
(*  - A dict is a function from key tokens to values.                      *)
(***************************************************************************)
EXTENDS Integers, Sequences, FiniteSets, TLC

VARIABLES
    exists,     \* os.path.isfile(filename)
    raw,        \* f.readlines(), every row already split at the tabs
    start,      \* argument start
    stop,       \* argument stop
    ag_mode,    \* argument ag_mode
    pc,         \* "check" | "loop" | "returned" | "raised"
    err,        \* the exception raised, "" while there is none
    i,          \* loop index (0-based, as in the source)
    data, fixs, sacs, blks, events,
    starttime, started, trialend, trial_id, content

vars == <<exists, raw, start, stop, ag_mode, pc, err, i, data, fixs, sacs,
          blks, events, starttime, started, trialend, trial_id, content>>

-----------------------------------------------------------------------------
(* SMIModes *)
LEFT_ONLY == 0
RIGHT_ONLY == 1
AVERAGE == 2
STRICT_AVERAGE == 3
STANDARD_EVENTS ==
    {"Fixation L", "Saccade L", "Blink L", "Fixation R", "Saccade R", "Blink R"}

None == <<>>
Some(v) == <<v>>

-----------------------------------------------------------------------------
(* Tokens and numbers *)
IntTok(v) == [kind |-> "int", val |-> v]
DecTok(v) == [kind |-> "dec", val |-> v]
TxtTok == [kind |-> "txt", val |-> 0]

Abs(n) == IF n < 0 THEN -n ELSE n

RECURSIVE GCD(_, _)
GCD(a, b) == IF b = 0 THEN a ELSE GCD(b, a % b)

\* the rational n/d (d > 0) in lowest terms
Frac(n, d) == LET g == GCD(Abs(n), d) IN <<n \div g, d \div g>>
RatAdd(a, b) == Frac(a[1] * b[2] + b[1] * a[2], a[2] * b[2])
RatHalf(a) == Frac(a[1], 2 * a[2])

Fld(line, k) == line[k + 1]
HasFld(line, k) == k + 1 <= Len(line)

\* int(line[k]) succeeds
IntOk(line, k) == HasFld(line, k) /\ Fld(line, k).kind = "int"
\* float(line[k]) succeeds
FloatOk(line, k) == HasFld(line, k) /\ Fld(line, k).kind \in {"int", "dec"}
\* the exception int(line[k]) or float(line[k]) raises when it fails
ConvErr(line, k) == IF HasFld(line, k) THEN "ValueError" ELSE "IndexError"
\* float(tok)
FloatOf(tok) == IF tok.kind = "int" THEN Frac(tok.val, 1) ELSE Frac(tok.val, 100)

\* line with line[k] replaced by v
SetFld(line, k, v) == [line EXCEPT ![k + 1] = v]
\* line[a:b]
Slice(line, a, b) == SubSeq(line, a + 1, b)

-----------------------------------------------------------------------------
(* Dicts keyed by the third field of a row, and sorted() on their keys.     *)
(* The keys are the field's text (a str), so sorted() orders them as         *)
(* strings: character by character, a proper prefix first.                   *)

RECURSIVE Digits(_)
\* the character codes of the decimal numeral of n >= 0 ('0' is 48)
Digits(n) == IF n < 10 THEN <<48 + n>> ELSE Append(Digits(n \div 10), 48 + (n % 10))

\* the text of a token, as character codes ('-' is 45, '.' is 46, 'x' is 120)
TokText(tok) ==
    LET sign == IF tok.val < 0 THEN <<45>> ELSE <<>>
        a == Abs(tok.val)
    IN  CASE tok.kind = "int" -> sign \o Digits(a)
          [] tok.kind = "dec" ->
                sign \o Digits(a \div 100) \o <<46, 48 + ((a % 100) \div 10), 48 + (a % 10)>>
          [] OTHER -> <<120>>

RECURSIVE StrLess(_, _)
\* s < t for two strings
StrLess(s, t) ==
    IF t = <<>> THEN FALSE
    ELSE IF s = <<>> THEN TRUE
    ELSE IF Head(s) # Head(t) THEN Head(s) < Head(t)
    ELSE StrLess(Tail(s), Tail(t))

KeyLess(a, b) == StrLess(TokText(a), TokText(b))

RECURSIVE sorted(_)
\* sorted(d.keys()) for the key set S
sorted(S) ==
    IF S = {} THEN <<>>
    ELSE LET m == CHOOSE x \in S : \A y \in S \ {x} : KeyLess(x, y)
         IN  <<m>> \o sorted(S \ {m})

EmptyDict == <<>>
keys(d) == DOMAIN d
\* d[k] = v
Put(d, k, v) == [x \in (DOMAIN d) \cup {k} |-> IF x = k THEN v ELSE d[x]]
\* d.get(k, None)
Get(d, k) == IF k \in DOMAIN d THEN d[k] ELSE None

-----------------------------------------------------------------------------
(* normalize(lines): every key of one side that the other side lacks is      *)
(* added to the other side with the value None.                              *)
normalize(lines) ==
    IF keys(lines[1]) = {} /\ keys(lines[2]) = {} THEN lines
    ELSE IF keys(lines[1]) = keys(lines[2]) THEN lines
    ELSE LET left == [k \in keys(lines[1]) \cup {x \in keys(lines[2]) : Get(lines[1], x) = None}
                        |-> Get(lines[1], k)]
             right == [k \in keys(lines[2]) \cup {x \in keys(left) : Get(lines[2], x) = None}
                        |-> Get(lines[2], k)]
         IN  <<left, right>>

\* (a + b)/2
Mean(a, b) == RatHalf(RatAdd(a, b))

\* the records one key adds to the result of process_fixation
FixationOf(mode, l, r) ==
    LET both == <<Fld(l, 3), Fld(l, 4), Mean(Fld(l, 5), Fld(r, 5)),
                  Mean(Fld(l, 6), Fld(r, 6)), Mean(Fld(l, 7), Fld(r, 7))>>
    IN  CASE mode = Some(AVERAGE) \/ mode = None ->
                IF l = None THEN <<Slice(r, 3, 8)>>
                ELSE IF r = None THEN <<Slice(l, 3, 8)>>
                ELSE <<both>>
          [] mode = Some(LEFT_ONLY) -> IF l = None THEN <<>> ELSE <<Slice(l, 3, 8)>>
          [] mode = Some(RIGHT_ONLY) -> IF r = None THEN <<>> ELSE <<Slice(r, 3, 8)>>
          [] mode = Some(STRICT_AVERAGE) -> IF l = None \/ r = None THEN <<>> ELSE <<both>>
          [] OTHER -> <<>>

\* the records one key adds to the result of process_saccade
SaccadeOf(mode, l, r) ==
    LET both == <<Fld(l, 3), Fld(l, 4), Fld(l, 5),
                  Mean(Fld(l, 6), Fld(r, 6)), Mean(Fld(l, 7), Fld(r, 7)),
                  Mean(Fld(l, 8), Fld(r, 8)), Mean(Fld(l, 9), Fld(r, 9))>>
    IN  CASE mode = Some(AVERAGE) \/ mode = None ->
                IF l = None THEN <<Slice(r, 3, 10)>>
                ELSE IF r = None THEN <<Slice(l, 3, 10)>>
                ELSE <<both>>
          [] mode = Some(LEFT_ONLY) -> IF l = None THEN <<>> ELSE <<Slice(l, 3, 10)>>
          [] mode = Some(RIGHT_ONLY) -> IF r = None THEN <<>> ELSE <<Slice(r, 3, 10)>>
          [] mode = Some(STRICT_AVERAGE) -> IF l = None \/ r = None THEN <<>> ELSE <<both>>
          [] OTHER -> <<>>

\* BlinkOf with a key of both sides kept as the left blink, not dropped
BlinkOf_KeepLeft(mode, l, r) ==
    IF l = None THEN <<Slice(r, 3, 6)>> ELSE <<Slice(l, 3, 6)>>

\* the records one key adds to the result of process_blink (mode is not read)
BlinkOf(mode, l, r) ==
    IF l = None THEN <<Slice(r, 3, 6)>>
    ELSE IF r = None THEN <<Slice(l, 3, 6)>>
    ELSE <<>>

RECURSIVE FixationLoop(_, _, _, _)
\* for key in keys: ... of process_fixation
FixationLoop(mode, left, right, ks) ==
    IF ks = <<>> THEN <<>>
    ELSE FixationOf(mode, left[Head(ks)], right[Head(ks)])
            \o FixationLoop(mode, left, right, Tail(ks))

RECURSIVE SaccadeLoop(_, _, _, _)
\* for key in keys: ... of process_saccade
SaccadeLoop(mode, left, right, ks) ==
    IF ks = <<>> THEN <<>>
    ELSE SaccadeOf(mode, left[Head(ks)], right[Head(ks)])
            \o SaccadeLoop(mode, left, right, Tail(ks))

RECURSIVE BlinkLoop(_, _, _, _)
\* for key in keys: ... of process_blink
BlinkLoop(mode, left, right, ks) ==
    IF ks = <<>> THEN <<>>
    ELSE BlinkOf(mode, left[Head(ks)], right[Head(ks)])
            \o BlinkLoop(mode, left, right, Tail(ks))

\* process_fixation with the keys taken before normalize has added the keys
\* that only the right side has
process_fixation_LeftKeys(mode, lr) ==
    LET n == normalize(lr)
    IN  FixationLoop(mode, n[1], n[2], sorted(keys(lr[1])))

process_fixation(mode, lr) ==
    LET n == normalize(lr)
    IN  FixationLoop(mode, n[1], n[2], sorted(keys(n[1])))

process_saccade(mode, lr) ==
    LET n == normalize(lr)
    IN  SaccadeLoop(mode, n[1], n[2], sorted(keys(n[1])))

process_blink(mode, lr) ==
    LET n == normalize(lr)
    IN  BlinkLoop(mode, n[1], n[2], sorted(keys(n[1])))

\* the tag ends in L, ends in R (re.match(r'.*L$', ln[0]))
EndsL(tag) == tag \in {"Fixation L", "Saccade L", "Blink L"}
EndsR(tag) == tag \in {"Fixation R", "Saccade R", "Blink R"}
\* re.match(r'^Fixation.*', event_type), read for the six standard tags
IsFixation(tag) == tag \in {"Fixation L", "Fixation R"}
IsSaccade(tag) == tag \in {"Saccade L", "Saccade R"}
IsBlink(tag) == tag \in {"Blink L", "Blink R"}

append_line(ln, lst) ==
    IF EndsL(Fld(ln, 0)) THEN <<Put(lst[1], Fld(ln, 2), ln), lst[2]>>
    ELSE IF EndsR(Fld(ln, 0)) THEN <<lst[1], Put(lst[2], Fld(ln, 2), ln)>>
    ELSE lst

-----------------------------------------------------------------------------
(* The body of the loop over the rows, lines 305-406, as a function of the   *)
(* local variables st, the row line, its index idx and n = len(raw).         *)

NoEvents == [Efix |-> <<>>, Esac |-> <<>>, Eblk |-> <<>>, msg |-> <<>>]
NoBuffers == <<EmptyDict, EmptyDict>>

\* the local variables at lines 93-102
InitLocals ==
    [data |-> <<>>, fixs |-> NoBuffers, sacs |-> NoBuffers, blks |-> NoBuffers,
     events |-> NoEvents, starttime |-> None, started |-> FALSE,
     trialend |-> FALSE, trial_id |-> None, content |-> FALSE,
     pc |-> "loop", err |-> ""]

Raise(st, e) == [st EXCEPT !.pc = "raised", !.err = e]

\* the trial ending without the reset of fixs at line 345
Flush_KeepFixs(st, mode) ==
    [st EXCEPT
        !.data = Append(st.data,
                    [events |-> [Efix |-> process_fixation(mode, st.fixs),
                                 Esac |-> process_saccade(mode, st.sacs),
                                 Eblk |-> process_blink(mode, st.blks),
                                 msg |-> st.events.msg]]),
        !.events = NoEvents,
        !.sacs = NoBuffers, !.blks = NoBuffers,
        !.trialend = FALSE]

\* lines 331-352: the trial ending
Flush(st, mode) ==
    [st EXCEPT
        !.data = Append(st.data,
                    [events |-> [Efix |-> process_fixation(mode, st.fixs),
                                 Esac |-> process_saccade(mode, st.sacs),
                                 Eblk |-> process_blink(mode, st.blks),
                                 msg |-> st.events.msg]]),
        !.events = NoEvents,
        !.fixs = NoBuffers, !.sacs = NoBuffers, !.blks = NoBuffers,
        !.trialend = FALSE]

\* the trial number of the row, without lines 318-319
ReadTrial_NoEnd(st, line) ==
    LET s1 == [st EXCEPT !.content = TRUE]
    IN  IF ~IntOk(line, 1) THEN Raise(s1, ConvErr(line, 1))
        ELSE [s1 EXCEPT !.trial_id = Some(Fld(line, 1).val)]

\* lines 315-319: the trial number of the row
ReadTrial(st, line) ==
    LET s1 == [st EXCEPT !.content = TRUE]
    IN  IF ~IntOk(line, 1) THEN Raise(s1, ConvErr(line, 1))
        ELSE LET old_trial == st.trial_id
                 new == Some(Fld(line, 1).val)
             IN  [s1 EXCEPT !.trial_id = new,
                            !.trialend = st.trialend \/ (old_trial # None /\ old_trial # new)]

\* lines 322-363: a started trial stops or ends, or a trial starts
Segment(st, line, idx, n, startArg, stopArg, mode) ==
    IF st.started
    THEN LET closing == stopArg = st.trial_id \/ idx = n - 1
             s1 == IF closing THEN [st EXCEPT !.started = FALSE, !.trialend = TRUE]
                   ELSE st
         IN  IF s1.trialend THEN Flush(s1, mode) ELSE s1
    ELSE IF startArg = None \/ startArg = st.trial_id
         THEN LET s1 == [st EXCEPT !.started = TRUE]
              IN  IF ~IntOk(line, 3) THEN Raise(s1, ConvErr(line, 3))
                  ELSE [s1 EXCEPT !.starttime = Some(Fld(line, 3).val)]
         ELSE st

\* line 365, 366: int(line[k]) - starttime raises
MinusErr(st, line, k) ==
    IF ~IntOk(line, k) THEN ConvErr(line, k)
    ELSE IF st.starttime = None THEN "TypeError"
    ELSE ""

\* lines 365-369: the times of the row, relative to starttime, in ms
Timed(line, origin) ==
    SetFld(SetFld(SetFld(line,
        3, Frac(Fld(line, 3).val - origin[1], 1000)),
        4, Frac(Fld(line, 4).val - origin[1], 1000)),
        5, Frac(Fld(line, 5).val, 1000))

\* lines 389-403: the row with its coordinates as floats; <<>> when the try
\* block raises (the row is then skipped, line 406)
Coords(line) ==
    LET tag == Fld(line, 0)
        last == IF IsFixation(tag) THEN 7 ELSE IF IsSaccade(tag) THEN 9 ELSE 5
        cs == 6 .. last
    IN  IF \E k \in cs : ~FloatOk(line, k) THEN <<>>
        ELSE [k \in 1 .. Len(line) |->
                IF (k - 1) \in cs THEN FloatOf(line[k]) ELSE line[k]]

\* lines 374-406: the row is stored
Store(st, line) ==
    IF ~st.started THEN st
    ELSE IF Fld(line, 0) \notin STANDARD_EVENTS
    THEN IF ~IntOk(line, 2) THEN Raise(st, ConvErr(line, 2))
         ELSE [st EXCEPT !.events.msg = Append(@, <<Fld(line, 2).val, Fld(line, 3)>>)]
    ELSE LET ln == Coords(line)
             tag == Fld(line, 0)
         IN  IF ln = <<>> THEN st
             ELSE IF IsFixation(tag) THEN [st EXCEPT !.fixs = append_line(ln, @)]
             ELSE IF IsSaccade(tag) THEN [st EXCEPT !.sacs = append_line(ln, @)]
             ELSE IF IsBlink(tag) THEN [st EXCEPT !.blks = append_line(ln, @)]
             ELSE st

\* one pass of the loop without the test of lines 310-311
Body_NoPreamble(st, line, idx, n, startArg, stopArg, mode) ==
    LET s1 == ReadTrial(st, line)
        s2 == Segment(s1, line, idx, n, startArg, stopArg, mode)
        e3 == MinusErr(s2, line, 3)
        e4 == MinusErr(s2, line, 4)
    IN  IF s1.pc = "raised" THEN s1
        ELSE IF s2.pc = "raised" THEN s2
        ELSE IF e3 # "" THEN Raise(s2, e3)
        ELSE IF e4 # "" THEN Raise(s2, e4)
        ELSE IF ~IntOk(line, 5) THEN Raise(s2, ConvErr(line, 5))
        ELSE Store(s2, Timed(line, s2.starttime))

\* lines 307-406: one pass of the loop
Body(st, line, idx, n, startArg, stopArg, mode) ==
    IF ~st.content /\ Fld(line, 0) \notin STANDARD_EVENTS THEN st
    ELSE LET s1 == ReadTrial(st, line)
             s2 == Segment(s1, line, idx, n, startArg, stopArg, mode)
             e3 == MinusErr(s2, line, 3)
             e4 == MinusErr(s2, line, 4)
         IN  IF s1.pc = "raised" THEN s1
             ELSE IF s2.pc = "raised" THEN s2
             ELSE IF e3 # "" THEN Raise(s2, e3)
             ELSE IF e4 # "" THEN Raise(s2, e4)
             ELSE IF ~IntOk(line, 5) THEN Raise(s2, ConvErr(line, 5))
             ELSE Store(s2, Timed(line, s2.starttime))

RECURSIVE Loop(_, _, _, _, _, _)
\* lines 305-406 from row idx on: the locals when the loop ends or raises
Loop(st, rows, idx, startArg, stopArg, mode) ==
    IF st.pc = "raised" \/ idx >= Len(rows) THEN st
    ELSE Loop(Body(st, rows[idx + 1], idx, Len(rows), startArg, stopArg, mode),
              rows, idx + 1, startArg, stopArg, mode)

\* read_smioutput on an existing file with the rows given: the locals at the
\* return (pc "loop", data is returned) or at the raise (pc "raised")
Parse(rows, startArg, stopArg, mode) ==
    Loop(InitLocals, rows, 0, startArg, stopArg, mode)

-----------------------------------------------------------------------------
(* read_smioutput as a state machine *)

Locals ==
    [data |-> data, fixs |-> fixs, sacs |-> sacs, blks |-> blks,
     events |-> events, starttime |-> starttime, started |-> started,
     trialend |-> trialend, trial_id |-> trial_id, content |-> content,
     pc |-> pc, err |-> err]

SetLocals(st) ==
    /\ data' = st.data /\ fixs' = st.fixs /\ sacs' = st.sacs /\ blks' = st.blks
    /\ events' = st.events /\ starttime' = st.starttime /\ started' = st.started
    /\ trialend' = st.trialend /\ trial_id' = st.trial_id /\ content' = st.content
    /\ pc' = st.pc /\ err' = st.err

\* lines 93-102 (the locals) before line 288
InitWith(ex, rows, startArg, stopArg, mode) ==
    /\ exists = ex /\ raw = rows
    /\ start = startArg /\ stop = stopArg /\ ag_mode = mode
    /\ pc = "check" /\ err = "" /\ i = 0
    /\ data = <<>> /\ fixs = NoBuffers /\ sacs = NoBuffers /\ blks = NoBuffers
    /\ events = NoEvents /\ starttime = None /\ started = FALSE
    /\ trialend = FALSE /\ trial_id = None /\ content = FALSE

\* the file is read without the test of line 288
OpenFile_Unchecked ==
    /\ pc = "check"
    /\ pc' = "loop" /\ err' = err
    /\ UNCHANGED <<exists, raw, start, stop, ag_mode, i, data, fixs, sacs, blks,
                   events, starttime, started, trialend, trial_id, content>>

\* lines 288-302: the file is read, or does not exist
OpenFile ==
    /\ pc = "check"
    /\ IF exists THEN pc' = "loop" /\ err' = err
       ELSE pc' = "raised" /\ err' = "Exception"
    /\ UNCHANGED <<exists, raw, start, stop, ag_mode, i, data, fixs, sacs, blks,
                   events, starttime, started, trialend, trial_id, content>>

\* lines 305-406: one row
NextLine ==
    /\ pc = "loop" /\ i < Len(raw)
    /\ SetLocals(Body(Locals, raw[i + 1], i, Len(raw), start, stop, ag_mode))
    /\ i' = IF pc' = "raised" THEN i ELSE i + 1
    /\ UNCHANGED <<exists, raw, start, stop, ag_mode>>

\* line 411: return data
Return ==
    /\ pc = "loop" /\ i = Len(raw)
    /\ pc' = "returned"
    /\ UNCHANGED <<exists, raw, start, stop, ag_mode, err, i, data, fixs, sacs,
                   blks, events, starttime, started, trialend, trial_id, content>>

Next == OpenFile \/ NextLine \/ Return

-----------------------------------------------------------------------------
(* The inputs.  A file is a sequence of rows; the row at position p (from 1) *)
(* has the sequence number p and starts at StartAt(p), as in a recording,    *)
(* unless the family says otherwise.                                         *)

MaxRows == 3
MaxSegRows == 5
MaxKey == 3

StartAt(p) == 1500 * p
DurOf(p) == 700 + 100 * p

\* a well-formed row of the event kind and side of tag
EventRow(tag, trial, key, st, dur, x) ==
    LET head == <<tag, IntTok(trial), IntTok(key), IntTok(st), IntTok(st + dur), IntTok(dur)>>
    IN  IF IsFixation(tag) THEN head \o <<DecTok(x), IntTok(20)>>
        ELSE IF IsSaccade(tag) THEN head \o <<DecTok(x), IntTok(20), IntTok(x + 3), DecTok(2050)>>
        ELSE head

\* the same row with field k not a number
Damaged(row, k) == SetFld(row, k, TxtTok)

Shapes ==
    {"hdr", "blank", "msg", "msgnum", "msgnum2", "FL1", "FL2", "FR1", "SR2", "BL1",
     "bad1", "bad3", "bad4", "bad5", "bad6", "bad6t2"}

ShapeRow(shape, p) ==
    LET fl1 == EventRow("Fixation L", 1, p, StartAt(p), DurOf(p), 100 * p + 25)
        fl2 == EventRow("Fixation L", 2, p, StartAt(p), DurOf(p), 100 * p + 25)
    IN  CASE shape = "hdr" -> <<"Event Type", TxtTok, TxtTok, TxtTok>>
          [] shape = "blank" -> <<"">>
          [] shape = "msg" -> <<"UserEvent", IntTok(1), IntTok(StartAt(p)), TxtTok>>
          [] shape = "msgnum" ->
                <<"UserEvent", IntTok(1), IntTok(p), IntTok(StartAt(p)),
                  IntTok(StartAt(p)), IntTok(0)>>
          [] shape = "msgnum2" ->
                <<"UserEvent", IntTok(2), IntTok(p), IntTok(StartAt(p)),
                  IntTok(StartAt(p)), IntTok(0)>>
          [] shape = "FL1" -> fl1
          [] shape = "FL2" -> fl2
          [] shape = "FR1" ->
                EventRow("Fixation R", 1, p, StartAt(p) + 250, DurOf(p) + 50, 100 * p + 75)
          [] shape = "SR2" ->
                EventRow("Saccade R", 2, p, StartAt(p) + 250, DurOf(p) + 50, 100 * p + 75)
          [] shape = "BL1" -> EventRow("Blink L", 1, p, StartAt(p), DurOf(p), 0)
          [] shape = "bad1" -> Damaged(fl1, 1)
          [] shape = "bad3" -> Damaged(fl1, 3)
          [] shape = "bad4" -> Damaged(fl1, 4)
          [] shape = "bad5" -> Damaged(fl1, 5)
          [] shape = "bad6" -> Damaged(fl1, 6)
          [] shape = "bad6t2" -> Damaged(fl2, 6)

SeqsUpTo(S, n) == UNION {[1 .. k -> S] : k \in 0 .. n}

\* files of up to MaxRows rows of any shape
Files == {[p \in DOMAIN f |-> ShapeRow(f[p], p)] : f \in SeqsUpTo(Shapes, MaxRows)}

\* files of up to MaxSegRows well-formed left fixations of trials 1 to 3
SegFiles ==
    {[p \in DOMAIN f |-> EventRow("Fixation L", f[p], p, StartAt(p), DurOf(p), 100 * p + 25)]
        : f \in SeqsUpTo(1 .. 3, MaxSegRows)}

RECURSIVE SetToSeq(_)
SetToSeq(S) ==
    IF S = {} THEN <<>>
    ELSE LET m == CHOOSE x \in S : \A y \in S : x <= y
         IN  <<m>> \o SetToSeq(S \ {m})

KeySample == (1 .. MaxKey) \cup {10}
Kinds == {"Fixation", "Saccade", "Blink"}

\* the left row and the right row of one trial with the sequence number k
EyeRow(kind, side, k) ==
    IF side = "L"
    THEN EventRow(kind \o " L", 1, k, StartAt(k), DurOf(k), 100 * k + 25)
    ELSE EventRow(kind \o " R", 1, k, StartAt(k) + 250, DurOf(k) + 50, 100 * k + 75)

\* one trial: the left rows of the keys L, the right rows of the keys R, and a
\* closing row of the next trial
EyeFile(kind, L, R) ==
    [p \in 1 .. Cardinality(L) |-> EyeRow(kind, "L", SetToSeq(L)[p])]
        \o [p \in 1 .. Cardinality(R) |-> EyeRow(kind, "R", SetToSeq(R)[p])]
        \o <<EventRow("Fixation L", 2, 0, StartAt(12), DurOf(1), 125)>>

Modes == {None, Some(LEFT_ONLY), Some(RIGHT_ONLY), Some(AVERAGE), Some(STRICT_AVERAGE)}

Init ==
    \E ex \in BOOLEAN, rows \in Files,
       a \in {None, Some(1), Some(2), Some(3)}, b \in {None, Some(2)},
       m \in {None, Some(LEFT_ONLY)} :
        /\ ex \/ rows = <<>>
        /\ InitWith(ex, rows, a, b, m)

InitSeg ==
    \E rows \in SegFiles,
       a \in {None, Some(1), Some(2), Some(3)}, b \in {None, Some(1), Some(2), Some(3)},
       m \in {None, Some(LEFT_ONLY)} :
        InitWith(TRUE, rows, a, b, m)

InitEyes ==
    \E kind \in Kinds, L \in SUBSET KeySample, R \in SUBSET KeySample, m \in Modes :
        InitWith(TRUE, EyeFile(kind, L, R), None, None, m)

Spec == Init /\ [][Next]_vars
SpecSeg == InitSeg /\ [][Next]_vars
SpecEyes == InitEyes /\ [][Next]_vars

-----------------------------------------------------------------------------
(* What the claims speak of *)

Range(s) == {s[p] : p \in DOMAIN s}
Last(s) == s[Len(s)]

\* the trial numbers of the rows, one per row
TrialsOf(rows) == [p \in DOMAIN rows |-> Fld(rows[p], 1).val]

RECURSIVE Blocks(_)
\* the trial numbers of the maximal runs of rows with one trial number
Blocks(ts) ==
    IF Len(ts) <= 1 THEN ts
    ELSE IF ts[1] = ts[2] THEN Blocks(Tail(ts))
    ELSE <<ts[1]>> \o Blocks(Tail(ts))

\* the least element of S, or d when S is empty
MinOr(S, d) == IF S = {} THEN d ELSE CHOOSE x \in S : \A y \in S : x <= y

\* the number of blocks from the first block of trial a (from the first block
\* when a is None) up to, and without, the next block of trial b (to the end
\* when b is None)
ExpectedTrials(bl, a, b) ==
    LET n == Len(bl)
        first == IF a = None THEN 1 ELSE MinOr({j \in 1 .. n : bl[j] = a[1]}, n + 1)
        last == IF b = None THEN n + 1
                ELSE MinOr({j \in first .. n : bl[j] = b[1]}, n + 1)
    IN  IF first > n THEN 0 ELSE last - first

\* the keys a mode selects from the left keys L and the right keys R
Selected(mode, L, R) ==
    CASE mode = Some(LEFT_ONLY) -> L
      [] mode = Some(RIGHT_ONLY) -> R
      [] mode = Some(STRICT_AVERAGE) -> L \cap R
      [] mode = Some(AVERAGE) \/ mode = None -> L \cup R

\* this step appends a trial record to data
Flushes == Len(data') = Len(data) + 1
\* the events of the record this step appends
Flushed == Last(data').events

\* rows \ row p
Without(rows, p) == SubSeq(rows, 1, p - 1) \o SubSeq(rows, p + 1, Len(rows))

\* a row with a recognized tag, numbers in its trial and time fields, and a
\* coordinate that is not a number
BadCoordinate(row) ==
    /\ Fld(row, 0) \in STANDARD_EVENTS
    /\ \A k \in {1, 3, 4, 5} : IntOk(row, k)
    /\ \E k \in 6 .. (Len(row) - 1) : ~FloatOk(row, k)

-----------------------------------------------------------------------------
(* The claims *)

\* C1 (as claimed; refuted under SpecSeg): read_smioutput returns exactly one
\* trial record per trial-number block between start (inclusive) and stop
\* (exclusive).
C1_TrialCount ==
    pc = "returned" => Len(data) = ExpectedTrials(Blocks(TrialsOf(raw)), start, stop)

\* C2 (as claimed; refuted under SpecSeg): when start is set and is the trial
\* number of no row of a file with at least one recognized row, no row raises,
\* no trial is opened and no trial record is made.
C2_EmptyFilter ==
    (start # None /\ raw # <<>> /\ \A p \in DOMAIN raw : TrialsOf(raw)[p] # start[1])
        => pc # "raised" /\ ~started /\ data = <<>>

\* C3 (as claimed; refuted under Spec): once the file is open, a row with a
\* recognized tag and a field that is not a number does not make the parser
\* raise; it is skipped.
C3_NoAbortOnBadRow ==
    ~(/\ pc = "raised" /\ exists /\ err = "ValueError"
      /\ Fld(raw[i + 1], 0) \in STANDARD_EVENTS)

\* C4 (as claimed; refuted under Spec): a recognized row with a coordinate
\* that is not a number changes nothing: the records returned for a file with
\* such a row are the records returned for the file without that row.
C4_MalformedRowIsInert ==
    pc = "returned" =>
        \A p \in DOMAIN raw :
            LET without == Parse(Without(raw, p), start, stop, ag_mode)
            IN  BadCoordinate(raw[p]) /\ without.pc # "raised" => data = without.data

\* C5 (as claimed; refuted under SpecSeg): when read_smioutput returns, no
\* trial is still in progress: the trial that was active at the last row has
\* been flushed into data.
C5_ForcedClose == pc = "returned" => ~started

\* C6 (as claimed; refuted under SpecSeg): with no start and no stop filter
\* every trial record begins with the event of the row that opened the trial,
\* and that event has the normalized start 0.
C6_TrialLocalOrigin ==
    pc = "returned" /\ start = None /\ stop = None =>
        \A k \in DOMAIN data :
            data[k].events.Efix # <<>> => data[k].events.Efix[1][1] = <<0, 1>>

\* C7: whenever a trial is flushed, its record holds exactly one fixation per
\* key the mode selects from the keys of the left and the right fixation
\* buffer (left keys, right keys, their union, their intersection), and
\* likewise one saccade per selected key of the saccade buffers, and the flush
\* raises nothing.
C7_ModeExclusivity ==
    [][Flushes =>
        /\ Len(Flushed.Efix) = Cardinality(Selected(ag_mode, keys(fixs[1]), keys(fixs[2])))
        /\ Len(Flushed.Esac) = Cardinality(Selected(ag_mode, keys(sacs[1]), keys(sacs[2])))
        /\ pc' # "raised"]_vars

\* C7 witness: left fixations 1, 2 and right fixations 2, 3 under
\* STRICT_AVERAGE have been flushed into one record with one fixation.
C7_Witness ==
    /\ pc = "returned" /\ ag_mode = Some(STRICT_AVERAGE)
    /\ raw = EyeFile("Fixation", {1, 2}, {2, 3})
    /\ Len(data) = 1 /\ Len(data[1].events.Efix) = 1

\* the [start, end, duration] of the buffered line ln
Timing(ln) == Slice(ln, 3, 6)

\* C8 (as claimed; refuted under SpecEyes): under LEFT_ONLY a flushed trial
\* has exactly the blinks of the left buffer, one per left key, and under
\* RIGHT_ONLY exactly those of the right buffer.
C8_BlinkSingleEye ==
    [][Flushes /\ ag_mode \in {Some(LEFT_ONLY), Some(RIGHT_ONLY)} =>
        LET own == IF ag_mode = Some(LEFT_ONLY) THEN blks[1] ELSE blks[2]
        IN  /\ Len(Flushed.Eblk) = Cardinality(keys(own))
            /\ Range(Flushed.Eblk) = {Timing(own[k]) : k \in keys(own)}]_vars

\* the row of the file with the tag and the key
RowOf(tag, k) == CHOOSE row \in Range(raw) : Fld(row, 0) = tag /\ Fld(row, 2) = k

\* (us - origin)/1000.0 and us/1000.0, in lowest terms
Ms(us) == <<us \div GCD(Abs(us), 1000), 1000 \div GCD(Abs(us), 1000)>>
\* the [start, end, duration] the row has in a trial with the origin o
RowTiming(row, o) ==
    <<Ms(Fld(row, 3).val - o), Ms(Fld(row, 4).val - o), Ms(Fld(row, 5).val)>>

\* C9: whenever a trial is flushed under AVERAGE, no mode or STRICT_AVERAGE,
\* its Eblk holds no blink of a key that both blink buffers have, and exactly
\* one blink for each key that exactly one buffer has: the [start, end,
\* duration] of that side's row, start and end relative to the origin, in ms.
C9_BlinkDropRule ==
    [][Flushes /\ ag_mode \in {None, Some(AVERAGE), Some(STRICT_AVERAGE)} =>
        LET L == keys(blks[1])
            R == keys(blks[2])
            one == {RowTiming(RowOf("Blink L", k), starttime[1]) : k \in L \ R}
                     \cup {RowTiming(RowOf("Blink R", k), starttime[1]) : k \in R \ L}
        IN  /\ Len(Flushed.Eblk) = Cardinality((L \ R) \cup (R \ L))
            /\ Range(Flushed.Eblk) = one
            /\ \A k \in L \cap R :
                   /\ Timing(blks[1][k]) \notin Range(Flushed.Eblk)
                   /\ Timing(blks[2][k]) \notin Range(Flushed.Eblk)]_vars

\* C9 witness: under STRICT_AVERAGE the left blinks 1, 2 and the right blinks
\* 2, 3 have been flushed: blink 2 is dropped, blinks 1 and 3 are kept.
C9_Witness ==
    /\ pc = "returned" /\ ag_mode = Some(STRICT_AVERAGE)
    /\ raw = EyeFile("Blink", {1, 2}, {2, 3})
    /\ Len(data) = 1 /\ Len(data[1].events.Eblk) = 2

\* C10 (as claimed; refuted under SpecEyes): whenever a trial is flushed under
\* AVERAGE or STRICT_AVERAGE, a key that both fixation buffers have, and a key
\* that both saccade buffers have, yields a record with the start, end and
\* duration of the left entry.
C10_TimingNeverBlended ==
    [][Flushes /\ ag_mode \in {Some(AVERAGE), Some(STRICT_AVERAGE)} =>
        /\ \A k \in keys(fixs[1]) \cap keys(fixs[2]) :
               \E j \in DOMAIN Flushed.Efix :
                   SubSeq(Flushed.Efix[j], 1, 3) = Timing(fixs[1][k])
        /\ \A k \in keys(sacs[1]) \cap keys(sacs[2]) :
               \E j \in DOMAIN Flushed.Esac :
                   SubSeq(Flushed.Esac[j], 1, 3) = Timing(sacs[1][k])]_vars

-----------------------------------------------------------------------------
RECURSIVE Ascending(_)
\* the key tokens of S in ascending order of the numbers they denote
Ascending(S) ==
    IF S = {} THEN <<>>
    ELSE LET m == CHOOSE x \in S : \A y \in S : x.val <= y.val
         IN  <<m>> \o Ascending(S \ {m})

\* C11 (as claimed; refuted under SpecEyes): whenever a trial is flushed under
\* LEFT_ONLY or RIGHT_ONLY, its fixations are the buffered lines of that eye
\* in ascending numeric order of their sequence numbers, and so are its
\* saccades (9 before 10, 2 before 10).
C11_NumericOrder ==
    [][Flushes /\ ag_mode \in {Some(LEFT_ONLY), Some(RIGHT_ONLY)} =>
        LET side == IF ag_mode = Some(LEFT_ONLY) THEN 1 ELSE 2
            fk == Ascending(keys(fixs[side]))
            sk == Ascending(keys(sacs[side]))
        IN  /\ Flushed.Efix = [j \in 1 .. Len(fk) |-> Slice(fixs[side][fk[j]], 3, 8)]
            /\ Flushed.Esac = [j \in 1 .. Len(sk) |-> Slice(sacs[side][sk[j]], 3, 10)]]_vars

\* a message row laid out as documented: event type, trial number, start
\* time, description text
DocumentedMessage(row) ==
    /\ Len(row) = 4 /\ Fld(row, 0) \notin STANDARD_EVENTS
    /\ IntOk(row, 1) /\ IntOk(row, 2) /\ Fld(row, 3).kind = "txt"

\* C12 (as claimed; refuted under Spec): a documented message row of the
\* active trial that does not close it (same trial number, not the stop
\* trial, not the last row, no close pending) is appended to the pending
\* messages as [time, description], changes no eye buffer and raises nothing.
C12_MessageCapture ==
    [][(/\ pc = "loop" /\ i < Len(raw) - 1 /\ started /\ ~trialend
        /\ DocumentedMessage(raw[i + 1])
        /\ trial_id = Some(Fld(raw[i + 1], 1).val) /\ stop # trial_id)
       => /\ pc' # "raised"
          /\ events'.msg = Append(events.msg, <<Fld(raw[i + 1], 2).val, Fld(raw[i + 1], 3)>>)
          /\ fixs' = fixs /\ sacs' = sacs /\ blks' = blks]_vars

\* C13: a row read while no recognized row has been seen, and itself not
\* recognized, changes nothing but the row index: trial number, active flag,
\* pending-close flag, origin, buffers, messages, output, and nothing is
\* raised. Every other row is treated as data: the parser is past the
\* preamble and has read the row's trial number, or has raised on it.
C13_PreambleSkipped ==
    [][pc = "loop" /\ i < Len(raw) =>
        IF ~content /\ Fld(raw[i + 1], 0) \notin STANDARD_EVENTS
        THEN /\ i' = i + 1 /\ pc' = "loop" /\ ~content'
             /\ UNCHANGED <<trial_id, started, trialend, starttime, fixs, sacs, blks,
                            events, data, err>>
        ELSE content'
             /\ \/ pc' = "raised"
                \/ trial_id' = Some(Fld(raw[i + 1], 1).val)]_vars

\* C13 witness: a header row and a blank row were skipped, and the fixation
\* row after them was read as data and opened trial 1.
C13_Witness ==
    /\ pc = "loop" /\ i = 3 /\ Len(raw) = 3
    /\ raw[1] = ShapeRow("hdr", 1) /\ raw[2] = ShapeRow("blank", 2)
    /\ raw[3] = ShapeRow("FL1", 3)
    /\ content /\ started /\ trial_id = Some(1) /\ data = <<>>

\* C14: when the input path is not an existing file, the call never reaches
\* the loop and never returns: it is at the file check or has raised the
\* Exception of line 294, no row has been read or parsed, and there are no
\* trial records.
C14_MissingInput ==
    ~exists =>
        /\ pc \in {"check", "raised"}
        /\ pc = "raised" => err = "Exception"
        /\ i = 0 /\ ~content /\ trial_id = None /\ ~started
        /\ data = <<>>

\* C14 witness: the call on a missing file, with a start trial set, has
\* raised.
C14_Witness ==
    ~exists /\ pc = "raised" /\ err = "Exception" /\ start = Some(1) /\ data = <<>>

\* C15 (as claimed; refuted under SpecSeg): a row flushes a trial only while
\* the trial is active, and only if the row's trial number differs from the
\* trial number of the row before it, or equals the stop trial number, or the
\* row is the last row of the input.
C15_CloseConditions ==
    [][Flushes =>
        /\ started
        /\ \/ trial_id' # trial_id
           \/ stop = trial_id'
           \/ i = Len(raw) - 1]_vars

\* the lines the six eye buffers f, s, b hold
BufferedLines(f, s, b) ==
    UNION {{lr[side][k] : k \in keys(lr[side])} : lr \in {f, s, b}, side \in 1 .. 2}

\* in the locals after a step on the row, the buffers hold nothing but what
\* that row stored: at most its own line, at most its own message
OnlyFrom(row, f, s, b, ev) ==
    /\ \A ln \in BufferedLines(f, s, b) :
            Fld(ln, 0) = Fld(row, 0) /\ Fld(ln, 2) = Fld(row, 2)
    /\ Cardinality(BufferedLines(f, s, b)) + Len(ev.msg) <= 1
    /\ \A m \in Range(ev.msg) : m[1] = Fld(row, 2).val
    /\ ev.Efix = <<>> /\ ev.Esac = <<>> /\ ev.Eblk = <<>>

\* no two trial records of d hold the same event or message
NothingTwice(d) ==
    \A a, b \in DOMAIN d : a # b =>
        \A kind \in {"Efix", "Esac", "Eblk", "msg"} :
            Range(d[a].events[kind]) \cap Range(d[b].events[kind]) = {}

\* C16: after every processed row, when no trial is active the six eye
\* buffers and the pending messages are empty; after a row that flushes a
\* trial, and after a row that opens one, they hold nothing but what that row
\* itself stored, and a trial opens on empty buffers; no event or message is
\* in two trial records.
C16_BufferLifecycle ==
    [][pc = "loop" /\ i < Len(raw) =>
        /\ ~started' =>
                fixs' = NoBuffers /\ sacs' = NoBuffers /\ blks' = NoBuffers
                    /\ events' = NoEvents
        /\ Flushes => OnlyFrom(raw[i + 1], fixs', sacs', blks', events')
        /\ ~started /\ started' =>
                /\ BufferedLines(fixs, sacs, blks) = {} /\ events = NoEvents
                /\ OnlyFrom(raw[i + 1], fixs', sacs', blks', events')
        /\ NothingTwice(data')]_vars

\* C16 witness: three rows of the trials 1, 2, 1 with no start and no stop
\* were flushed into two records of one fixation each, and no trial is active.
C16_Witness ==
    /\ pc = "returned" /\ ~started /\ start = None /\ stop = None
    /\ raw = <<ShapeRow("FL1", 1), ShapeRow("FL2", 2), ShapeRow("FL1", 3)>>
    /\ Len(data) = 2
    /\ Len(data[1].events.Efix) = 1 /\ Len(data[2].events.Efix) = 1
    /\ BufferedLines(fixs, sacs, blks) = {}

\* the rows of the file that the entries of the record events ev were taken
\* from: an event row is known by its duration, which no other row of the
\* file has, and a message row by its time
SourceRows(ev) ==
    {p \in DOMAIN raw :
        IF Fld(raw[p], 0) \in STANDARD_EVENTS
        THEN /\ IntOk(raw[p], 5)
             /\ \E e \in Range(ev.Efix) \cup Range(ev.Esac) \cup Range(ev.Eblk) :
                    e[3] = Ms(Fld(raw[p], 5).val)
        ELSE /\ IntOk(raw[p], 2)
             /\ \E m \in Range(ev.msg) : m[1] = Fld(raw[p], 2).val}

\* all entries of the record events ev come from rows of one trial number
Pure(ev) ==
    \A p, q \in SourceRows(ev) : Fld(raw[p], 1) = Fld(raw[q], 1)

\* C17: after every processed row, every trial record holds events and
\* messages of rows with one and the same trial number; and a row that closes
\* a trial by its trial-number change is not in the record it closes: when it
\* is stored at all, it is what the buffers of the next trial hold.
C17_TrialPurity ==
    [][pc = "loop" /\ i < Len(raw) =>
        /\ \A r \in DOMAIN data' : Pure(data'[r].events)
        /\ Flushes /\ trial_id' # trial_id =>
                /\ (i + 1) \notin SourceRows(Flushed)
                /\ OnlyFrom(raw[i + 1], fixs', sacs', blks', events')]_vars

\* C17 witness: a fixation of trial 1, then a saccade of trial 2: the record
\* the saccade row closed holds the fixation and not the saccade, which is
\* what the buffers of the next trial hold.
C17_Witness ==
    /\ pc = "loop" /\ i = 2
    /\ raw = <<ShapeRow("FL1", 1), ShapeRow("SR2", 2), ShapeRow("msgnum2", 3)>>
    /\ Len(data) = 1 /\ SourceRows(data[1].events) = {1}
    /\ keys(sacs[2]) = {IntTok(2)} /\ started

\* the number of the trial-number block row p is in, counting from 1
BlockOf(p) ==
    1 + Cardinality({q \in 2 .. p : Fld(raw[q], 1) # Fld(raw[q - 1], 1)})

\* the number of fixations of the record events ev taken from row p
FixationsOf(ev, p) ==
    Cardinality({j \in DOMAIN ev.Efix : ev.Efix[j][3] = Ms(Fld(raw[p], 5).val)})

\* C18 (as claimed; refuted under SpecSeg): with no start trial, no stop
\* trial and LEFT_ONLY, the returned data holds for every row p of a file of
\* well-formed 'Fixation L' rows exactly one fixation, in the record of the
\* trial-number block of p and in no other record.
C18_NoEventLost ==
    pc = "returned" /\ start = None /\ stop = None /\ ag_mode = Some(LEFT_ONLY) =>
        \A p \in DOMAIN raw :
            /\ BlockOf(p) \in DOMAIN data
            /\ \A r \in DOMAIN data :
                    FixationsOf(data[r].events, p) = IF r = BlockOf(p) THEN 1 ELSE 0

\* C19 (as claimed; refuted under SpecSeg): with a stop trial set, once a row
\* of the stop trial has closed the active trial (a record has been flushed,
\* no trial is active, and the row before this one was of the stop trial), the
\* next row of the stop trial is not captured: it opens no trial and nothing
\* of it is buffered.
C19_StopIsFinal ==
    [][(/\ pc = "loop" /\ i < Len(raw)
        /\ stop # None /\ ~started /\ trial_id = stop /\ data # <<>>
        /\ Fld(raw[i + 1], 1).val = stop[1])
       => /\ ~started'
          /\ BufferedLines(fixs', sacs', blks') = {}
          /\ events' = NoEvents]_vars

=============================================================================
